---------------------------- MODULE Spec2Model ----------------------------
(***************************************************************************)
(* TwitchTrackerScraper: the range extractor of app.py (the /scrape and    *)
(* /download handlers, calculate_pages_needed, scrape_usernames_range) and *)
(* the full extractor of scraper.py (scrape_usernames).                    *)
(*                                                                         *)
(* Text is a sequence of code points (32 is a space, 47 is '/').  A row of *)
(* the listing table is the sequence of its <a> tags in document order; a  *)
(* tag is [href |-> <<>> or <<value>>, strings |-> its text nodes].        *)
(* The data source is fixed when a run starts (src); what one GET returns  *)
(* is chosen among the answers Responses allows, one choice per request.   *)
(***************************************************************************)
EXTENDS Integers, Sequences, FiniteSets

VARIABLES
    src,            \* the data source: [layout, pag]
    handler,        \* "none" | "scrape" | "download" | "main" | "calc"
    pc,             \* position of the running handler
    start,          \* request field start (app.py:129, 151)
    end,            \* request field end (app.py:130, 152)
    pages_needed,   \* app.py:54
    idx,            \* position of the for loop of app.py:59 in pages_needed
    all_usernames,  \* app.py:55, the running list of the range extractor
    usernames,      \* scraper.py:26, the running list of the full extractor
    page_usernames, \* scraper.py:69, the new usernames of the last parsed page
    page,           \* scraper.py:27
    log,            \* the requests sent and the delays slept, in order
    response,       \* what the service handler returned
    csvfile,        \* the file scraper.py:108-112 writes
    returned        \* the value scrape_usernames returns (scraper.py:115)

vars == <<src, handler, pc, start, end, pages_needed, idx, all_usernames,
          usernames, page_usernames, page, log, response, csvfile, returned>>

---------------------------------------------------------------------------
(* Bounds of the model and constants of the program *)

\* Requested ranges reach over the first MaxSpan pages.
MaxSpan == 3

\* calculate_pages_needed is applied to every 1 <= start <= end <= MaxRank.
MaxRank == 160

\* app.py:29-30, the page size calculate_pages_needed divides by
PageSize == 50

\* scraper.py:28
max_pages == 100

\* scraper.py:98, the fewest new usernames that let a page without pagination continue
MinNewToContinue == 25

\* app.py:105, scraper.py:102: time.sleep(1)
SleepSecs == 1

\* app.py:134, 156
BadRequest == 400

---------------------------------------------------------------------------
(* Python and BeautifulSoup helpers *)

Min(a, b) == IF a < b THEN a ELSE b

Max(a, b) == IF a > b THEN a ELSE b

\* str.isspace() of one code point (the ASCII whitespace and U+00A0)
WhiteSpace == {9, 10, 11, 12, 13, 28, 29, 30, 31, 32, 160}

RECURSIVE LStrip(_)
LStrip(s) ==
    IF s # <<>> /\ Head(s) \in WhiteSpace THEN LStrip(Tail(s)) ELSE s

RECURSIVE RStrip(_)
RStrip(s) ==
    IF s # <<>> /\ s[Len(s)] \in WhiteSpace
    THEN RStrip(SubSeq(s, 1, Len(s) - 1))
    ELSE s

\* str.strip()
Strip(s) == RStrip(LStrip(s))

\* Tag.get_text(strip=True): every text node stripped, the empty ones dropped,
\* the rest joined with no separator
RECURSIVE get_text(_)
get_text(strings) ==
    IF strings = <<>> THEN <<>>
    ELSE Strip(Head(strings)) \o get_text(Tail(strings))

\* str.startswith(prefix)
startswith(s, prefix) ==
    Len(s) >= Len(prefix) /\ SubSeq(s, 1, Len(prefix)) = prefix

\* link.get('href', '')
get_href(link) == IF link.href = <<>> THEN <<>> ELSE link.href[1]

\* x in list
In(x, list) == \E i \in 1..Len(list) : list[i] = x

\* row.find_all('a', href=True): the <a> tags that carry an href attribute
HasHref(link) == link.href # <<>>

find_all_a_href(row) == SelectSeq(row, HasHref)

\* the first match of a find, <<>> for None
First(found) == IF found = <<>> THEN <<>> ELSE <<found[1]>>

\* math.ceil of the quotient num / den of a true division, den > 0
ceil(num, den) == -((-num) \div den)

\* list(range(a, b))
PyRange(a, b) == [i \in 1..Max(b - a, 0) |-> a + i - 1]

\* a slice bound as Python normalises it for a list of length n
SliceBound(i, n) == IF i < 0 THEN Max(n + i, 0) ELSE Min(i, n)

\* list[a:b]
PySlice(s, a, b) == SubSeq(s, SliceBound(a, Len(s)) + 1, SliceBound(b, Len(s)))

---------------------------------------------------------------------------
(* The data source: what the listing serves *)

\* the username of the channel ranked r, one code point
Name(r) == <<1000 + r>>

\* <a href="/name">name</a>, the text set off by a space and a line break
TextLink(r) == [href |-> << <<47>> \o Name(r) >>,
                strings |-> << <<32>> \o Name(r) \o <<10>> >>]

\* <a href="https://name"><img></a>: an absolute href and no text
ImgLink(r) == [href |-> << <<104, 116, 116, 112, 115, 58, 47, 47>> \o Name(r) >>,
               strings |-> <<>>]

\* <a href="https://name">name</a>: a link with text that leaves the site
ExternalLink(r) == [href |-> << <<104, 116, 116, 112, 115, 58, 47, 47>> \o Name(r) >>,
                    strings |-> <<Name(r)>>]

\* <a name="name">name</a>: an anchor with text and no href attribute
NoHrefLink(r) == [href |-> <<>>, strings |-> <<Name(r)>>]

\* <a href="/name"> </a>: a channel link whose text is blank
BlankLink(r) == [href |-> << <<47>> \o Name(r) >>, strings |-> << <<32, 32>> >>]

\* The rows of page p under each layout.
\*   "ranked": the site as app.py:94 describes it, PageSize rows a page, each an
\*             image link followed by the text link, ranks in stable order
\*   "text":   one text link a row; two full pages, then pages of
\*             MinNewToContinue, MinNewToContinue - 1 and one row
\*   "dups":   usernames repeated within a page and across pages; page 4 holds
\*             nothing new, page 5 does, page 6 on are empty
\*   "links":  rows that differ in which of their links qualifies
RowsOf(layout, p) ==
    CASE p < 1 -> <<>>
      [] layout = "ranked" ->
            [i \in 1..PageSize |->
                <<ImgLink(PageSize * (p - 1) + i), TextLink(PageSize * (p - 1) + i)>>]
      [] layout = "text" ->
            [i \in 1..(CASE p <= 2 -> PageSize
                         [] p = 3 -> MinNewToContinue
                         [] p = 4 -> MinNewToContinue - 1
                         [] OTHER -> 1) |->
                <<TextLink(PageSize * (p - 1) + i)>>]
      [] layout = "dups" ->
            CASE p <= 3 -> << <<TextLink(p)>>, <<TextLink(p)>>, <<TextLink(p + 1)>> >>
              [] p = 4 -> << <<TextLink(1)>>, <<TextLink(3)>>, <<TextLink(2)>> >>
              [] p = 5 -> << <<TextLink(7)>>, <<TextLink(1)>>, <<TextLink(8)>> >>
              [] OTHER -> <<>>
      [] layout = "links" ->
            CASE p = 1 -> << <<TextLink(1)>>,
                             <<ImgLink(2), TextLink(2)>>,
                             <<TextLink(1), TextLink(3)>>,
                             <<NoHrefLink(4), TextLink(5)>>,
                             <<ExternalLink(6)>>,
                             <<BlankLink(7), TextLink(7)>> >>
              [] p = 2 -> << <<TextLink(8), TextLink(9)>>,
                             <<TextLink(8), TextLink(1), TextLink(10)>>,
                             <<>> >>
              [] OTHER -> << <<TextLink(10 + p)>> >>

Layouts == {"ranked", "text", "dups", "links"}

\* The <ul class="pagination"> of every page, <<>> when the page has none:
\* its <a> tags as [string, class] and its <li> tags as [class].
PaginationOf(pag) ==
    CASE pag = "none" -> <<>>
      [] pag = "a_next" ->
            << [anchors |-> <<[string |-> "1", class |-> {}],
                              [string |-> "Next", class |-> {}]>>,
                items |-> <<[class |-> {}], [class |-> {}]>>] >>
      [] pag = "a_next_disabled" ->
            << [anchors |-> <<[string |-> "Next", class |-> {"disabled"}]>>,
                items |-> <<[class |-> {}]>>] >>
      [] pag = "li_next" ->
            << [anchors |-> <<[string |-> ">", class |-> {}]>>,
                items |-> <<[class |-> {"active"}], [class |-> {"next"}]>>] >>
      [] pag = "li_next_disabled" ->
            << [anchors |-> <<[string |-> ">", class |-> {}]>>,
                items |-> <<[class |-> {"next", "disabled"}]>>] >>
      [] pag = "no_next" ->
            << [anchors |-> <<[string |-> "1", class |-> {}]>>,
                items |-> <<[class |-> {"active"}]>>] >>
      [] pag = "a_next_in_disabled_li" ->
            << [anchors |-> <<[string |-> "Next", class |-> {}]>>,
                items |-> <<[class |-> {"next", "disabled"}]>>] >>
      [] pag = "a_disabled_li_next" ->
            << [anchors |-> <<[string |-> "Next", class |-> {"disabled"}]>>,
                items |-> <<[class |-> {"next"}]>>] >>

Paginations == {"none", "a_next", "a_next_disabled", "li_next", "li_next_disabled",
                "no_next", "a_next_in_disabled_li", "a_disabled_li_next"}

Sources == [layout : Layouts, pag : Paginations]

\* What requests.get and the parse of its text can come to for page p:
\* a RequestException ("error"), a document without table#channels, a table
\* without tbody, or the listing page of the source.
Responses(s, p) ==
    { [kind |-> "error", rows |-> <<>>, pagination |-> <<>>],
      [kind |-> "no_table", rows |-> <<>>, pagination |-> PaginationOf(s.pag)],
      [kind |-> "no_tbody", rows |-> <<>>, pagination |-> PaginationOf(s.pag)],
      [kind |-> "page", rows |-> RowsOf(s.layout, p), pagination |-> PaginationOf(s.pag)] }

\* The page a URL names: app.py:61-64 and scraper.py:34-37 send page 1 as the
\* bare URL and page n as ?page=n.
Url(p) == IF p = 1 THEN <<>> ELSE <<p>>

PageOfUrl(url) == IF url = <<>> THEN 1 ELSE url[1]

\* the entries of the log
Get(url, kind) == [op |-> "get", arg |-> PageOfUrl(url), result |-> kind]

Sleep(secs) == [op |-> "sleep", arg |-> secs, result |-> ""]

---------------------------------------------------------------------------
(* app.py *)

\* calculate_pages_needed with the pages taken by floor division plus one:
\* right off a page's last rank, one page late on it
calculate_pages_needed_floor(s, e) ==
    PyRange((s \div PageSize) + 1, (e \div PageSize) + 2)

\* app.py:17-31
calculate_pages_needed(s, e) ==
    LET start_page == ceil(s, PageSize)
        end_page == ceil(e, PageSize)
    IN  PyRange(start_page, end_page + 1)

\* the test of app.py:101 without its look into the running list
RangeLinkAccepted_no_dedup(username, href, list) ==
    username # <<>> /\ startswith(href, <<47>>)

\* app.py:101, the test a link must pass to be appended
RangeLinkAccepted(username, href, list) ==
    username # <<>> /\ startswith(href, <<47>>) /\ ~In(username, list)

\* app.py:97-103, the loop over the links of one row
RECURSIVE RangeLinks(_, _)
RangeLinks(list, links) ==
    IF links = <<>> THEN list
    ELSE LET link == Head(links)
             username == get_text(link.strings)
             href == get_href(link)
         IN  IF RangeLinkAccepted(username, href, list)
             THEN Append(list, username)
             ELSE RangeLinks(list, Tail(links))

\* app.py:93-103, the loop over the rows of one page: the list after rows
\* lo..hi in this order.  The rows are taken half by half, and the first
\* half's list is evaluated (the test on its length) before the second half
\* starts: this keeps TLC's evaluation shallow and changes nothing else.
RECURSIVE RangeRowsFrom(_, _, _, _)
RangeRowsFrom(list, rows, lo, hi) ==
    IF lo > hi THEN list
    ELSE IF lo = hi THEN RangeLinks(list, find_all_a_href(rows[lo]))
    ELSE LET mid == (lo + hi) \div 2
             left == RangeRowsFrom(list, rows, lo, mid)
         IN  IF Len(left) >= 0 THEN RangeRowsFrom(left, rows, mid + 1, hi) ELSE left

RangeRows(list, rows) == RangeRowsFrom(list, rows, 1, Len(rows))

\* app.py:68-88, whether the iteration reaches the rows (no continue before them)
RangeParses(resp) == resp.kind = "page"

\* app.py:68-105, what one iteration adds to the log: the request, and the
\* delay of line 105 when no continue skipped it
RangeLogged(url, resp) ==
    IF RangeParses(resp)
    THEN <<Get(url, resp.kind), Sleep(SleepSecs)>>
    ELSE <<Get(url, resp.kind)>>

\* app.py:107-116
usernames_in_range(list, s, e) ==
    LET start_idx == s - 1
        end_idx == e
    IN  IF start_idx < Len(list) THEN PySlice(list, start_idx, end_idx) ELSE <<>>

\* the validation without its test of end against start
InvalidRange_start_only(s, e) == s < 1

\* app.py:133, 155
InvalidRange(s, e) == s < 1 \/ e < s

\* "twitch_username", the header of app.py:163 and scraper.py:110
Header == <<116, 119, 105, 116, 99, 104, 95, 117, 115, 101, 114, 110, 97, 109, 101>>

\* app.py:161-165, scraper.py:109-112: the header row, then a row a username
CsvRows(list) == << <<Header>> >> \o [i \in 1..Len(list) |-> <<list[i]>>]

\* the values a request gives start and end: below the valid ranks, and the
\* first, an inner and the last rank of each of the first MaxSpan pages
RankValues ==
    {-1, 0} \cup {PageSize * k + d : k \in 0..(MaxSpan - 1), d \in {1, 20, PageSize}}

\* app.py:128-136 and 150-158: start and end are read and validated, and
\* scrape_usernames_range starts (app.py:54-55).  The range extractor never
\* reads the pagination, so the source is one of each layout.
Request(h) ==
    /\ \E s \in RankValues, e \in RankValues, lay \in Layouts :
          /\ src' = [layout |-> lay, pag |-> "a_next"]
          /\ handler' = h
          /\ start' = s
          /\ end' = e
          /\ IF InvalidRange(s, e)
             THEN /\ response' = [status |-> BadRequest, error |-> TRUE,
                                  count |-> 0, usernames |-> <<>>, csv |-> <<>>]
                  /\ pc' = "done"
                  /\ UNCHANGED <<pages_needed, idx, all_usernames>>
             ELSE /\ pages_needed' = calculate_pages_needed(s, e)
                  /\ all_usernames' = <<>>
                  /\ idx' = 1
                  /\ pc' = "loop"
                  /\ UNCHANGED response
    /\ UNCHANGED <<usernames, page_usernames, page, log, csvfile, returned>>

\* app.py:125-136
scrape ==
    /\ pc = "idle"
    /\ Request("scrape")

\* app.py:147-158
download ==
    /\ pc = "idle"
    /\ Request("download")

\* the page of a failed fetch tried again
RangeAdvance_retry(i, resp) == IF resp.kind = "error" THEN i ELSE i + 1

\* app.py:59, 73, 82, 88: the for statement moves on to the next page, after
\* a continue as after the whole body
RangeAdvance(i, resp) == i + 1

\* app.py:59-105, one iteration of the loop over pages_needed
RangePage ==
    /\ handler \in {"scrape", "download"}
    /\ pc = "loop"
    /\ idx <= Len(pages_needed)
    /\ LET page_num == pages_needed[idx]
           url == Url(page_num)
       IN  \E resp \in Responses(src, PageOfUrl(url)) :
              /\ log' = log \o RangeLogged(url, resp)
              /\ all_usernames' = IF RangeParses(resp)
                                  THEN RangeRows(all_usernames, resp.rows)
                                  ELSE all_usernames
              /\ idx' = RangeAdvance(idx, resp)
    /\ UNCHANGED <<src, handler, pc, start, end, pages_needed, usernames,
                   page_usernames, page, response, csvfile, returned>>

\* app.py:107-116, then app.py:138-142 (scrape) or 160-180 (download)
RangeReturn ==
    /\ handler \in {"scrape", "download"}
    /\ pc = "loop"
    /\ idx > Len(pages_needed)
    /\ LET result == usernames_in_range(all_usernames, start, end)
       IN  response' = [status |-> 200, error |-> FALSE,
                        count |-> IF handler = "scrape" THEN Len(result) ELSE 0,
                        usernames |-> IF handler = "scrape" THEN result ELSE <<>>,
                        csv |-> IF handler = "download" THEN CsvRows(result) ELSE <<>>]
    /\ pc' = "done"
    /\ UNCHANGED <<src, handler, start, end, pages_needed, idx, all_usernames,
                   usernames, page_usernames, page, log, csvfile, returned>>

---------------------------------------------------------------------------
(* scraper.py *)

\* scraper.py:80, the test the row's link must pass to be appended
FullLinkAccepted(username, href, list) ==
    username # <<>> /\ startswith(href, <<47>>) /\ ~In(username, list)

\* scraper.py:74, row.find('a', href=True): the first <a> with an href, if any
find_a_href(row) == First(find_all_a_href(row))

\* scraper.py:73-82, one row: acc is [usernames, page_usernames]
FullRow(acc, row) ==
    LET found == find_a_href(row)
        link == found[1]
        username == get_text(link.strings)
        href == get_href(link)
    IN  IF found # <<>> /\ FullLinkAccepted(username, href, acc.usernames)
        THEN [usernames |-> Append(acc.usernames, username),
              page_usernames |-> Append(acc.page_usernames, username)]
        ELSE acc

\* scraper.py:72-82, the loop over the rows: acc after rows lo..hi in this
\* order, taken half by half as in RangeRowsFrom
RECURSIVE FullRowsFrom(_, _, _, _)
FullRowsFrom(acc, rows, lo, hi) ==
    IF lo > hi THEN acc
    ELSE IF lo = hi THEN FullRow(acc, rows[lo])
    ELSE LET mid == (lo + hi) \div 2
             left == FullRowsFrom(acc, rows, lo, mid)
         IN  IF Len(left.usernames) >= 0
             THEN FullRowsFrom(left, rows, mid + 1, hi)
             ELSE left

FullRows(acc, rows) == FullRowsFrom(acc, rows, 1, Len(rows))

\* pagination.find('a', string='Next'), scraper.py:93
FindNextAnchor(pagination) ==
    LET IsNext(a) == a.string = "Next"
    IN  First(SelectSeq(pagination.anchors, IsNext))

\* pagination.find('li', class_='next'), scraper.py:93
FindNextItem(pagination) ==
    LET IsNext(li) == "next" \in li.class
    IN  First(SelectSeq(pagination.items, IsNext))

\* scraper.py:93: a or b of two finds (a found tag is true)
next_button(pagination) ==
    IF FindNextAnchor(pagination) # <<>>
    THEN FindNextAnchor(pagination)
    ELSE FindNextItem(pagination)

\* Continues without the test of the disabled class, and with the fallback
\* threshold compared the wrong way round
Continues_lax(found, new) ==
    IF found # <<>>
    THEN next_button(found[1]) # <<>>
    ELSE ~(Len(new) > MinNewToContinue)

\* scraper.py:91-99: TRUE when neither break is taken; found is the
\* <ul class="pagination"> of the page, <<>> when it has none
Continues(found, new) ==
    IF found # <<>>
    THEN LET button == next_button(found[1])
         IN  ~(button = <<>> \/ "disabled" \in button[1].class)
    ELSE ~(Len(new) < MinNewToContinue)

\* the test of scraper.py:84 left out: a page that added nothing never stops the walk
NoNewUsernames_never(new) == FALSE

\* scraper.py:84, the page added nothing to the running list
NoNewUsernames(new) == new = <<>>

\* the loop test one page late
LoopTest_one_more(p) == p <= max_pages + 1

\* scraper.py:32, the loop test
LoopTest(p) == p <= max_pages

\* scraper.py:118-125: the script starts scrape_usernames (scraper.py:26-28)
main ==
    /\ pc = "idle"
    /\ \E s \in Sources : src' = s
    /\ handler' = "main"
    /\ usernames' = <<>>
    /\ page' = 1
    /\ pc' = "loop"
    /\ UNCHANGED <<start, end, pages_needed, idx, all_usernames, page_usernames,
                   log, response, csvfile, returned>>

\* scraper.py:32-102, one iteration of the while loop
FullPage ==
    /\ handler = "main"
    /\ pc = "loop"
    /\ LoopTest(page)
    /\ LET url == Url(page)
       IN  \E resp \in Responses(src, PageOfUrl(url)) :
              LET acc == FullRows([usernames |-> usernames, page_usernames |-> <<>>],
                                  resp.rows)
              IN  IF resp.kind # "page" \/ resp.rows = <<>>
                  THEN \* the breaks of lines 46, 55, 61 and 67
                       /\ log' = Append(log, Get(url, resp.kind))
                       /\ pc' = "write"
                       /\ UNCHANGED <<usernames, page_usernames, page>>
                  ELSE /\ usernames' = acc.usernames
                       /\ page_usernames' = acc.page_usernames
                       /\ IF ~NoNewUsernames(acc.page_usernames)
                             /\ Continues(resp.pagination, acc.page_usernames)
                          THEN /\ page' = page + 1
                               /\ log' = log \o <<Get(url, resp.kind), Sleep(SleepSecs)>>
                               /\ pc' = "loop"
                          ELSE \* the breaks of lines 86, 95 and 99
                               /\ log' = Append(log, Get(url, resp.kind))
                               /\ pc' = "write"
                               /\ UNCHANGED page
    /\ UNCHANGED <<src, handler, start, end, pages_needed, idx, all_usernames,
                   response, csvfile, returned>>

\* scraper.py:104-115, after the loop ended by its test or by a break
FullWrite ==
    /\ handler = "main"
    /\ pc = "write" \/ (pc = "loop" /\ ~LoopTest(page))
    /\ csvfile' = CsvRows(usernames)
    /\ returned' = usernames
    /\ pc' = "done"
    /\ UNCHANGED <<src, handler, start, end, pages_needed, idx, all_usernames,
                   usernames, page_usernames, page, log, response>>

---------------------------------------------------------------------------
(* The specifications *)

Init ==
    /\ src = [layout |-> "ranked", pag |-> "a_next"]
    /\ handler = "none"
    /\ pc = "idle"
    /\ start = 0
    /\ end = 0
    /\ pages_needed = <<>>
    /\ idx = 0
    /\ all_usernames = <<>>
    /\ usernames = <<>>
    /\ page_usernames = <<>>
    /\ page = 0
    /\ log = <<>>
    /\ response = [status |-> 0, error |-> FALSE, count |-> 0,
                   usernames |-> <<>>, csv |-> <<>>]
    /\ csvfile = <<>>
    /\ returned = <<>>

Next ==
    \/ scrape
    \/ download
    \/ RangePage
    \/ RangeReturn
    \/ main
    \/ FullPage
    \/ FullWrite

Spec == Init /\ [][Next]_vars

\* calculate_pages_needed alone, on every valid range up to MaxRank
InitPages ==
    /\ src = [layout |-> "ranked", pag |-> "a_next"]
    /\ handler = "calc"
    /\ pc = "call"
    /\ start \in 1..MaxRank
    /\ end \in start..MaxRank
    /\ pages_needed = <<>>
    /\ idx = 0
    /\ all_usernames = <<>>
    /\ usernames = <<>>
    /\ page_usernames = <<>>
    /\ page = 0
    /\ log = <<>>
    /\ response = [status |-> 0, error |-> FALSE, count |-> 0,
                   usernames |-> <<>>, csv |-> <<>>]
    /\ csvfile = <<>>
    /\ returned = <<>>

\* app.py:54, the call of calculate_pages_needed
CalcPages ==
    /\ handler = "calc"
    /\ pc = "call"
    /\ pages_needed' = calculate_pages_needed(start, end)
    /\ pc' = "done"
    /\ UNCHANGED <<src, handler, start, end, idx, all_usernames, usernames,
                   page_usernames, page, log, response, csvfile, returned>>

NextPages == CalcPages

SpecPages == InitPages /\ [][NextPages]_vars

---------------------------------------------------------------------------
(* Vocabulary of the properties *)

IsGet(entry) == entry.op = "get"

\* the requests of a log, in order
Gets(l) == SelectSeq(l, IsGet)

\* the pages requested, in order
PagesFetched(l) == [i \in 1..Len(Gets(l)) |-> Gets(l)[i].arg]

IsPrefix(s, t) == Len(s) <= Len(t) /\ SubSeq(t, 1, Len(s)) = s

NoDuplicates(s) == Cardinality({s[i] : i \in 1..Len(s)}) = Len(s)

InService == handler \in {"scrape", "download"}

\* This step sends a request: an iteration of either loop.
FetchStep == Len(Gets(log')) = Len(Gets(log)) + 1

\* the request this step sends
StepGet == log'[Len(log) + 1]

\* the usernames the service returned, in the JSON payload or as the CSV rows
Returned ==
    IF handler = "scrape" THEN response.usernames
    ELSE [i \in 1..(Len(response.csv) - 1) |-> response.csv[i + 1][1]]

\* the rank of a username of the "ranked" and "text" layouts
RankOf(u) == CHOOSE r \in 1..(PageSize * (MaxSpan + 1)) : Name(r) = u

---------------------------------------------------------------------------
(* C8 *)

\* ceil(n / PageSize), said without the division: the least k whose first k
\* pages reach rank n
CeilOfPage(n) == CHOOSE k \in 0..n : PageSize * k >= n /\ PageSize * (k - 1) < n

\* rank r is listed on page p when every page holds PageSize ranks
OnPage(r, p) == PageSize * (p - 1) < r /\ r <= PageSize * p

\* C8: for 1 <= start <= end, calculate_pages_needed(start, end) is the
\* contiguous increasing sequence ceil(start/50), ..., ceil(end/50); every rank
\* of [start, end] lies on a listed page, and every listed page holds a rank of
\* [start, end].
C8_PagesExact ==
    (handler = "calc" /\ pc = "done") =>
        /\ Len(pages_needed) = CeilOfPage(end) - CeilOfPage(start) + 1
        /\ \A i \in 1..Len(pages_needed) : pages_needed[i] = CeilOfPage(start) + i - 1
        /\ \A r \in start..end : \E i \in 1..Len(pages_needed) : OnPage(r, pages_needed[i])
        /\ \A i \in 1..Len(pages_needed) : \E r \in start..end : OnPage(r, pages_needed[i])

\* the spec's first example: (1, 150) gives [1, 2, 3]
C8_Witness ==
    /\ handler = "calc" /\ pc = "done"
    /\ start = 1 /\ end = 150
    /\ pages_needed = <<1, 2, 3>>

---------------------------------------------------------------------------
(* C7 *)

\* C7: in both service operations, a request with start < 1 or end < start
\* ends with the 400 response and sends no page request; a page request is
\* sent only in a request with start >= 1 and end >= start.
C7_RejectedBeforeFetch ==
    InService =>
        /\ (start < 1 \/ end < start) =>
              /\ pc = "done"
              /\ response.status = BadRequest
              /\ Gets(log) = <<>>
        /\ Gets(log) # <<>> => (start >= 1 /\ end >= start)

\* a download of 51..20 was answered 400
C7_Witness ==
    /\ handler = "download" /\ pc = "done"
    /\ start = 51 /\ end = 20
    /\ response.status = BadRequest
    /\ log = <<>>

---------------------------------------------------------------------------
(* C1 *)

\* C1: when the source lists ranks 50*(p-1)+1 .. 50*p on page p and every
\* fetch succeeds, every username scrape_usernames_range(start, end) returns
\* has a rank r with start <= r <= end.
C1_OnlyTheWindow ==
    ( /\ InService /\ pc = "done"
      /\ start >= 1 /\ end >= start
      /\ src.layout = "ranked"
      /\ \A i \in 1..Len(Gets(log)) : Gets(log)[i].result = "page" ) =>
        \A i \in 1..Len(Returned) :
            start <= RankOf(Returned[i]) /\ RankOf(Returned[i]) <= end

---------------------------------------------------------------------------
(* C3 *)

\* C3: whatever the source serves, scrape_usernames requests at most 100
\* pages, the pages 1, 2, ... each once and in increasing order; after the
\* 100th the loop cannot run again and the output is written.
C3_WithinCeiling ==
    handler = "main" =>
        /\ Len(Gets(log)) <= 100
        /\ \A i \in 1..Len(Gets(log)) : PagesFetched(log)[i] = i
        /\ (Len(Gets(log)) = 100 /\ pc = "loop") =>
              (~ENABLED FullPage /\ ENABLED FullWrite)
        /\ pc = "done" =>
              /\ Len(csvfile) = Len(usernames) + 1
              /\ \A i \in 1..Len(usernames) : csvfile[i + 1] = <<usernames[i]>>

\* every page had new usernames and an enabled Next, 100 pages were requested,
\* and the file is written
C3_Witness ==
    /\ handler = "main" /\ pc = "done"
    /\ src = [layout |-> "text", pag |-> "a_next"]
    /\ PagesFetched(log) = [i \in 1..max_pages |-> i]
    /\ \A i \in 1..max_pages : Gets(log)[i].result = "page"
    /\ page = max_pages + 1
    /\ Len(csvfile) = Len(usernames) + 1

---------------------------------------------------------------------------
(* C4 *)

\* C4: in the range extractor every page iteration is followed by the 1-unit
\* delay, whether the fetch succeeded, failed, or the page had no table or no
\* table body: each request in the log is directly followed by the delay.
C4_DelayAfterEveryPage ==
    InService =>
        \A i \in 1..Len(log) :
            log[i].op = "get" =>
                /\ i < Len(log)
                /\ log[i + 1] = Sleep(1)

---------------------------------------------------------------------------
(* C6 *)

\* C6: in the full extractor, when a fetched page adds no username to the
\* running list, the walk stops there: the loop is left with the list as it
\* was, and once it is left no further page is ever requested, whatever the
\* pagination of the page says and whatever later pages hold.
C6_StopsOnNoNew ==
    [][ handler = "main" =>
           /\ (FetchStep /\ StepGet.result = "page" /\ Len(usernames') = Len(usernames)) =>
                 (pc' = "write" /\ usernames' = usernames /\ page' = page)
           /\ pc \in {"write", "done"} =>
                 (Gets(log') = Gets(log) /\ usernames' = usernames) ]_vars

\* page 4 of "dups" repeats known usernames, its Next is enabled and page 5
\* holds new usernames: the walk has stopped after page 4
C6_Witness ==
    /\ handler = "main" /\ pc = "done"
    /\ src = [layout |-> "dups", pag |-> "a_next"]
    /\ PagesFetched(log) = <<1, 2, 3, 4>>
    /\ \A i \in 1..4 : Gets(log)[i].result = "page"
    /\ usernames = <<Name(1), Name(2), Name(3), Name(4)>>
    /\ \E i \in 1..Len(RowsOf("dups", 5)) :
          ~In(get_text(RowsOf("dups", 5)[i][1].strings), usernames)

---------------------------------------------------------------------------
(* C10 *)

\* a 'next' control of a pagination that is not marked disabled: an <a> with
\* the text Next, or an <li class="next">
HasOpenNext(pagination) ==
    \/ \E i \in 1..Len(pagination.anchors) :
          /\ pagination.anchors[i].string = "Next"
          /\ "disabled" \notin pagination.anchors[i].class
    \/ \E i \in 1..Len(pagination.items) :
          /\ "next" \in pagination.items[i].class
          /\ "disabled" \notin pagination.items[i].class

\* C10: after a page that added at least one username, the full extractor
\* goes on to the next page only if (a) the page has a pagination control with
\* a 'next' control not marked disabled, or (b) it has no pagination control
\* and the page added at least 25 usernames; in every other case it leaves the
\* loop.
C10_ContinuationRule ==
    [][ ( /\ handler = "main"
          /\ FetchStep
          /\ StepGet.result = "page"
          /\ Len(usernames') > Len(usernames) ) =>
        LET pagination == PaginationOf(src.pag)
            new == Len(usernames') - Len(usernames)
            allowed == \/ pagination # <<>> /\ HasOpenNext(pagination[1])
                       \/ pagination = <<>> /\ new >= 25
        IN  /\ (pc' = "loop" /\ page' = page + 1) => allowed
            /\ ~allowed => (pc' = "write" /\ page' = page) ]_vars

\* without pagination the walk went on after pages of 25 or more new
\* usernames and stopped after the page of 24
C10_Witness ==
    /\ handler = "main" /\ pc = "write"
    /\ src = [layout |-> "text", pag |-> "none"]
    /\ PagesFetched(log) = <<1, 2, 3, 4>>
    /\ Len(page_usernames) = 24
    /\ Len(usernames) = 50 + 50 + 25 + 24

---------------------------------------------------------------------------
(* C2 *)

\* the texts of the links of a row
RowTexts(row) == {get_text(row[k].strings) : k \in 1..Len(row)}

\* Going down rows lo..hi with names[i] the next username looked for: the
\* index of the username looked for after them.  A row that has names[i] among
\* its link texts takes it, and the search goes on with names[i + 1] in the
\* rows below.  (The rows are halved as in RangeRowsFrom.)
RECURSIVE NextUnmatched(_, _, _, _, _)
NextUnmatched(names, rows, i, lo, hi) ==
    IF lo > hi THEN i
    ELSE IF lo = hi
         THEN IF i <= Len(names) /\ names[i] \in RowTexts(rows[lo]) THEN i + 1 ELSE i
    ELSE LET mid == (lo + hi) \div 2
             left == NextUnmatched(names, rows, i, lo, mid)
         IN  IF left >= 0 THEN NextUnmatched(names, rows, left, mid + 1, hi) ELSE left

\* The usernames a step appended stand in the order of the rows of its page:
\* they are link texts of rows of the page, each of a row below the row of
\* the one before.
InRowOrder(names, rows) ==
    NextUnmatched(names, rows, 1, 1, Len(rows)) = Len(names) + 1

\* what a step may do to a running list: keep every entry where it is, add
\* at the end only, never an entry twice, and add only while parsing a page,
\* in the order of its rows
GrowsFirstSeen(old, new, parsed, rows) ==
    /\ IsPrefix(old, new)
    /\ NoDuplicates(new)
    /\ new # old =>
          (parsed /\ InRowOrder(SubSeq(new, Len(old) + 1, Len(new)), rows))

\* C2: in both extractors the running list never holds a username twice, and
\* every username stays where its first discovery put it, in page-then-row
\* order: a later duplicate never moves, replaces or re-adds an entry.
C2_DedupFirstSeen ==
    [][ LET parsed == FetchStep /\ StepGet.result = "page"
            rows == RowsOf(src.layout, StepGet.arg)
        IN  /\ InService => GrowsFirstSeen(all_usernames, all_usernames', parsed, rows)
            /\ handler = "main" => GrowsFirstSeen(usernames, usernames', parsed, rows) ]_vars

\* pages 1 and 2 of "dups" are parsed: each repeats a username within the
\* page, and page 2 starts with the last username of page 1
C2_Witness ==
    /\ InService /\ src.layout = "dups"
    /\ Len(Gets(log)) = 2
    /\ \A i \in 1..2 : Gets(log)[i] = Get(Url(i), "page")
    /\ all_usernames = <<Name(1), Name(2), Name(3)>>

---------------------------------------------------------------------------
(* C5 *)

\* C5: in range mode a failed fetch leaves the running list as it was and
\* every page of pages_needed is requested, each once and in order, failed or
\* not; in full mode a failed fetch ends the walk with no further request, and
\* the usernames gathered before it are the ones written to the CSV file and
\* returned.
C5_FetchFailure ==
    /\ [](InService /\ start >= 1 /\ end >= start =>
             /\ pc = "loop" => PagesFetched(log) = SubSeq(pages_needed, 1, idx - 1)
             /\ pc = "done" => PagesFetched(log) = pages_needed)
    /\ [](handler = "main" /\ pc = "done" =>
             /\ Len(csvfile) = Len(usernames) + 1
             /\ csvfile[1] = <<Header>>
             /\ \A i \in 1..Len(usernames) : csvfile[i + 1] = <<usernames[i]>>
             /\ returned = usernames)
    /\ [][ (FetchStep /\ StepGet.result = "error") =>
              /\ InService => all_usernames' = all_usernames
              /\ handler = "main" => (pc' = "write" /\ usernames' = usernames) ]_vars
    /\ [][ (handler = "main" /\ pc \in {"write", "done"}) =>
              (Gets(log') = Gets(log) /\ usernames' = usernames) ]_vars

\* the fetch of the second of three pages failed: the third was still
\* requested and the list holds the usernames of the first and the third
C5_Witness ==
    /\ InService /\ pc = "done"
    /\ src.layout = "ranked"
    /\ pages_needed = <<1, 2, 3>>
    /\ Gets(log) = <<Get(Url(1), "page"), Get(Url(2), "error"), Get(Url(3), "page")>>
    /\ Len(all_usernames) = 100
    /\ all_usernames[51] = Name(101)

---------------------------------------------------------------------------
(* C9 *)

\* the Listing Parser rule: a link qualifies when its text is not empty and
\* its href begins with '/'
Qualifies(link) ==
    get_text(link.strings) # <<>> /\ link.href # <<>> /\ link.href[1][1] = 47

\* the row's username by the rule: the text of its first qualifying link
RuleUsername(row) ==
    LET q == SelectSeq(row, Qualifies)
    IN  IF q = <<>> THEN <<>> ELSE <<get_text(q[1].strings)>>

\* the running list after a page by the rule: a row adds its username when no
\* earlier row of the page has it and the list did not
RuleAfterPage(list, rows) ==
    LET cand == [j \in 1..Len(rows) |-> [row |-> j, name |-> RuleUsername(rows[j])]]
        Adds(c) == /\ c.name # <<>>
                   /\ ~In(c.name[1], list)
                   /\ \A k \in 1..(c.row - 1) : cand[k].name # c.name
        added == SelectSeq(cand, Adds)
    IN  list \o [i \in 1..Len(added) |-> added[i].name[1]]

\* C9: in both extractors a parsed page changes the running list as the
\* Listing Parser rule says: each row gives the text of its first qualifying
\* link, which is added unless the list has it, and nothing else is added.
C9_SameRuleInBoth ==
    [][ (FetchStep /\ StepGet.result = "page") =>
        LET rows == RowsOf(src.layout, StepGet.arg)
        IN  /\ InService => all_usernames' = RuleAfterPage(all_usernames, rows)
            /\ handler = "main" => usernames' = RuleAfterPage(usernames, rows) ]_vars

===========================================================================
